---- MODULE Spec2Model ----
(***************************************************************************)
(* Atlas front end: the chat stream decoder (api/chat.ts, streamChat), the *)
(* turn assembler (hooks/useChat, sendMessage) alone and under several     *)
(* calls with ChatPage, the results store (stores/resultsStore.ts) with   *)
(* the components that use it, and the result mapper and 'View all'        *)
(* handler of components/Chat/ToolCallIndicator.tsx.                       *)
(*                                                                         *)
(* JavaScript values are modelled as follows.  A string that the code      *)
(* cuts (the response body, the decoder's buffer, a line) is a sequence of *)
(* one-character strings; a string that is only appended to or tested for *)
(* emptiness is a TLA+ string.  An object is a record; a property that is  *)
(* undefined is a field the record does not have, so {...o, k: v} is       *)
(* [k |-> v] @@ o.  A JSON value is a record tagged by its kind in the     *)
(* field json, so that null and numbers can sit beside objects.            *)
(***************************************************************************)
EXTENDS Integers, Sequences, FiniteSets, TLC

VARIABLES
  \* ---- streamChat (api/chat.ts) ----
  wireLines,       \* history: the kinds of the lines the server sends
  rpos,            \* number of bytes the reader has handed out
  decPending,      \* TextDecoder: bytes of an incomplete character
  buffer,          \* streamChat's buffer
  yielded,         \* the events the generator has yielded, in order
  dstate,          \* position of the generator
  \* ---- useChat (hooks/useChat) ----
  messages,        \* useState<ChatMessage[]>
  isStreaming,     \* useState(false)
  conversationId,  \* useState<number | null>
  error,           \* useState<string | null>
  activeToolCalls, \* useRef<ToolCallRecord[]>
  fullContent,     \* sendMessage's local fullContent
  pc,              \* position of sendMessage
  exit,            \* how sendMessage left its event loop
  renderError,     \* the error an updater of setMessages threw, if any
  processed,       \* history: the values the stream has delivered
  resolved,        \* history: indices of invocations a tool_result was applied to
  \* ---- useChat with several sendMessage calls, and ChatPage ----
  sends,           \* per sendMessage call: its position and its fullContent
  origin,          \* history: per message, the call whose turn it is (0: none)
  aborted,         \* history: the calls whose turn the caller has abandoned
  \* ---- resultsStore (stores/resultsStore.ts) ----
  _state,          \* let _state
  _listeners,      \* const _listeners = new Set(), in insertion order
  created,         \* number of listeners useResults has created
  published,       \* history: the batches passed to setResults
  notified,        \* history: the listener calls, with the state each one read
  lifetime,        \* history: per listener, the publishes it was registered for
  released,        \* history: per listener, the calls of its cleanup handle
  views,           \* per component using useResults: the batch it rendered
  \* ---- mapToResultItems (components/Chat/ToolCallIndicator.tsx) ----
  toolName,        \* the argument toolName
  data,            \* the argument data
  mapped           \* the outcome of the call, once made

decoderVars == <<wireLines, rpos, decPending, buffer, yielded, dstate>>

chatVars == <<messages, isStreaming, conversationId, error, activeToolCalls,
              fullContent, pc, exit, renderError, processed, resolved>>

convVars == <<sends, origin, aborted>>

storeVars == <<_state, _listeners, created, published, notified, lifetime>>

restVars == <<released, views, toolName, data, mapped>>

vars == <<decoderVars, chatVars, convVars, storeVars, restVars>>

\* ---- bounds ----------------------------------------------------------------

\* Longest response body, in lines.
MaxLines == 3

\* Longest stream of events delivered to one sendMessage call.
MaxEvents == 4

\* Most sendMessage calls on one useChat instance.
MaxSends == 2

\* Longest stream of events delivered to each of several sendMessage calls.
MaxConvEvents == 2

\* Most setResults calls.
MaxPublishes == 2

\* Most listeners useResults creates.
MaxListeners == 3

\* Most calls of one listener's cleanup handle.
MaxReleases == 2

\* Longest array of result records passed to mapToResultItems.
MaxRecords == 2

\* ---- sequences -------------------------------------------------------------

Last(s) == s[Len(s)]

Front(s) == SubSeq(s, 1, Len(s) - 1)

\* String.prototype.startsWith
StartsWith(s, p) == Len(s) >= Len(p) /\ SubSeq(s, 1, Len(p)) = p

\* String.prototype.slice(n)
Slice(s, n) == SubSeq(s, n + 1, Len(s))

\* String.prototype.split('\n'): never empty; part k lies between the
\* (k-1)-th and the k-th newline, the last part follows the last newline.
SplitLines(s) ==
  LET nl     == {i \in 1..Len(s) : s[i] = "\n"}
      n      == Cardinality(nl)
      nth(k) == IF k = 0 THEN 0
                ELSE IF k > n THEN Len(s) + 1
                ELSE CHOOSE i \in nl : Cardinality({j \in nl : j <= i}) = k
  IN  [k \in 1..(n + 1) |-> SubSeq(s, nth(k - 1) + 1, nth(k) - 1)]

\* ---- the wire --------------------------------------------------------------

\* The record marker, 'data: '.
DataPrefix == <<"d", "a", "t", "a", ":", " ">>

\* The two bytes of the UTF-8 encoding of U+00E9.
LeadByte == "0xC3"

ContByte == "0xA9"

Replacement == "U+FFFD"

\* {}: an event with no type
TextEmpty == <<"{", "}">>

\* {"type":"<U+00E9>"}, after decoding: an event of a type the client does
\* not know
TextOther ==
  <<"{", "\"", "t", "y", "p", "e", "\"", ":", "\"", "U+00E9", "\"", "}">>

\* the same text as the server's bytes
BytesOther ==
  <<"{", "\"", "t", "y", "p", "e", "\"", ":", "\"", LeadByte, ContByte, "\"", "}">>

\* {  -- a frame cut short: not JSON
TextBad == <<"{">>

\* null
TextNull == <<"n", "u", "l", "l">>

LineKinds == {"empty", "other", "bad", "null", "blank"}

\* The bytes of one line of the body, without its newline.
LineBytes(kind) ==
  CASE kind = "empty" -> DataPrefix \o TextEmpty
    [] kind = "other" -> DataPrefix \o BytesOther
    [] kind = "bad"   -> DataPrefix \o TextBad
    [] kind = "null"  -> DataPrefix \o TextNull
    [] kind = "blank" -> <<>>

\* The body: every line followed by its newline.
RECURSIVE WireOf(_)
WireOf(kinds) ==
  IF kinds = <<>> THEN <<>>
  ELSE LineBytes(Head(kinds)) \o <<"\n">> \o WireOf(Tail(kinds))

\* The bytes of the response body.
wire == WireOf(wireLines)

\* ---- JSON values -----------------------------------------------------------

JsonNull == [json |-> "null"]

JsonNumber == [json |-> "number"]

EvEmpty == [json |-> "object"]

EvOther == [json |-> "object", type |-> "U+00E9"]

\* JSON.parse on the texts the model's bodies hold: the value, or a
\* SyntaxError.  Every other text that can reach it here (a frame cut short,
\* a text holding U+FFFD in place of a character) is not JSON.
JSONParse(text) ==
  CASE text = TextEmpty -> [ok |-> TRUE, value |-> EvEmpty]
    [] text = TextOther -> [ok |-> TRUE, value |-> EvOther]
    [] text = TextNull  -> [ok |-> TRUE, value |-> JsonNull]
    [] OTHER            -> [ok |-> FALSE]

\* ---- streamChat ------------------------------------------------------------

\* TextDecoder.decode(value, {stream: true}): the characters of the bytes,
\* an incomplete character at the end kept for the next call.  A lead byte
\* with its continuation byte is one character; either byte alone is U+FFFD.
Utf8Decode(bytes) ==
  IF \A i \in 1..Len(bytes) : bytes[i] \notin {LeadByte, ContByte}
  THEN [text |-> bytes, pending |-> <<>>]
  ELSE
  LET cut  == Last(bytes) = LeadByte
      body == IF cut THEN Front(bytes) ELSE bytes
      char == [i \in 1..Len(body) |->
                IF body[i] = LeadByte
                THEN IF i < Len(body) /\ body[i + 1] = ContByte
                     THEN "U+00E9" ELSE Replacement
                ELSE IF body[i] = ContByte
                THEN IF i > 1 /\ body[i - 1] = LeadByte
                     THEN "" ELSE Replacement
                ELSE body[i]]
  IN  [text    |-> SelectSeq(char, LAMBDA c : c # ""),
       pending |-> IF cut THEN <<LeadByte>> ELSE <<>>]

\* A mutant: a line that fails to parse ends the decoding of the chunk.
RECURSIVE LineEventsAbort(_)
LineEventsAbort(lines) ==
  IF lines = <<>> THEN <<>>
  ELSE IF StartsWith(Head(lines), DataPrefix)
       THEN LET r == JSONParse(Slice(Head(lines), 6))
            IN  IF r.ok THEN <<r.value>> \o LineEventsAbort(Tail(lines))
                ELSE <<>>
       ELSE LineEventsAbort(Tail(lines))

\* for (const line of lines): the events the complete lines yield.
RECURSIVE LineEvents(_)
LineEvents(lines) ==
  IF lines = <<>> THEN <<>>
  ELSE IF StartsWith(Head(lines), DataPrefix)
       THEN LET r == JSONParse(Slice(Head(lines), 6))
            IN  (IF r.ok THEN <<r.value>> ELSE <<>>) \o LineEvents(Tail(lines))
       ELSE LineEvents(Tail(lines))

\* A mutant: the incomplete last line is not carried over.
ChunkStepNoCarry(buf, pend, chunk) ==
  LET d     == Utf8Decode(pend \o chunk)
      parts == SplitLines(buf \o d.text)
  IN  [buffer |-> <<>>, pending |-> d.pending, events |-> LineEvents(Front(parts))]

\* A mutant: the last part is parsed as a line too.
ChunkStepYieldsLast(buf, pend, chunk) ==
  LET d     == Utf8Decode(pend \o chunk)
      parts == SplitLines(buf \o d.text)
  IN  [buffer |-> Last(parts), pending |-> d.pending,
       events |-> LineEvents(parts)]

\* One turn of the while loop after a successful read: decode the chunk onto
\* the buffer, split, keep the last part, yield the events of the others.
ChunkStep(buf, pend, chunk) ==
  LET d     == Utf8Decode(pend \o chunk)
      parts == SplitLines(buf \o d.text)
  IN  [buffer |-> Last(parts), pending |-> d.pending,
       events |-> LineEvents(Front(parts))]

\* fetch() resolved with a success status and a body.
FetchOk ==
  /\ dstate = "init"
  /\ dstate' = "reading"
  /\ UNCHANGED <<wireLines, rpos, decPending, buffer, yielded>>
  /\ UNCHANGED <<chatVars, convVars, storeVars, restVars>>

\* fetch() resolved with a non-success status, or without a body.
FetchFail ==
  /\ dstate = "init"
  /\ dstate' = "threw"
  /\ UNCHANGED <<wireLines, rpos, decPending, buffer, yielded>>
  /\ UNCHANGED <<chatVars, convVars, storeVars, restVars>>

\* reader.read() resolved with the next n bytes of the body.
ReadChunk(body, n) ==
  /\ dstate = "reading"
  /\ LET r == ChunkStep(buffer, decPending, SubSeq(body, rpos + 1, rpos + n))
     IN  /\ buffer' = r.buffer
         /\ decPending' = r.pending
         /\ yielded' = yielded \o r.events
  /\ rpos' = rpos + n
  /\ UNCHANGED <<wireLines, dstate>>
  /\ UNCHANGED <<chatVars, convVars, storeVars, restVars>>

\* reader.read() resolved with done: the generator returns.
ReadDone ==
  /\ dstate = "reading"
  /\ rpos = Len(wire)
  /\ dstate' = "returned"
  /\ UNCHANGED <<wireLines, rpos, decPending, buffer, yielded>>
  /\ UNCHANGED <<chatVars, convVars, storeVars, restVars>>

\* reader.read() rejected: the generator throws.
ReadFail ==
  /\ dstate = "reading"
  /\ dstate' = "threw"
  /\ UNCHANGED <<wireLines, rpos, decPending, buffer, yielded>>
  /\ UNCHANGED <<chatVars, convVars, storeVars, restVars>>

\* ---- useChat: values ---------------------------------------------------------

\* useState<number | null>(null)
NullId == -1

\* useState<string | null>(null)
NullError == "<null>"

\* The values streamChat can hand to the event loop: whatever JSON.parse
\* returned for a line of the body.
EvConversationId == [json |-> "object", type |-> "conversation_id", id |-> 7]

EvTokenA == [json |-> "object", type |-> "token", content |-> "a"]

EvTokenB == [json |-> "object", type |-> "token", content |-> "b"]

EvCallMeetings ==
  [json |-> "object", type |-> "tool_call", name |-> "search_meetings",
   arguments |-> [query |-> "budget"]]

EvCallVotes ==
  [json |-> "object", type |-> "tool_call", name |-> "search_votes",
   arguments |-> [query |-> "budget"]]

ResultRows == [success |-> TRUE, data |-> "rows"]

ResultFailed == [success |-> FALSE, error |-> "timeout"]

EvResultRows ==
  [json |-> "object", type |-> "tool_result", name |-> "search_meetings",
   result |-> ResultRows]

EvResultFailed ==
  [json |-> "object", type |-> "tool_result", name |-> "search_meetings",
   result |-> ResultFailed]

EvDone == [json |-> "object", type |-> "done"]

EvError == [json |-> "object", type |-> "error", content |-> "boom"]

Delivered ==
  {EvConversationId, EvTokenA, EvTokenB, EvCallMeetings, EvCallVotes,
   EvResultRows, EvResultFailed, EvDone, EvError, EvOther, EvEmpty, JsonNumber,
   JsonNull}

\* event.type, for a value that is not null.
TypeOf(v) ==
  IF v.json = "object" /\ "type" \in DOMAIN v THEN v.type ELSE "undefined"

IsType(v, t) == v.json # "null" /\ TypeOf(v) = t

KnownTypes == {"conversation_id", "token", "tool_call", "tool_result", "done", "error"}

\* o.k || fallback, for a string property
StringOr(o, k, fallback) ==
  IF k \in DOMAIN o /\ o[k] # "" THEN o[k] ELSE fallback

\* {...o, ...patch}
Spread(o, patch) == patch @@ o

\* {...o, k: undefined}
Without(o, k) == [f \in DOMAIN o \ {k} |-> o[f]]

\* The invocations a reader of the message sees (toolCalls may be undefined).
Invocations(m) == IF "toolCalls" \in DOMAIN m THEN m.toolCalls ELSE <<>>

\* Whether a reader of the message sees it as streaming.
Streaming(m) == "isStreaming" \in DOMAIN m /\ m.isStreaming

\* toolCall.result?.success !== undefined
HasResult(tc) == "result" \in DOMAIN tc /\ "success" \in DOMAIN tc.result

\* ---- useChat: the updaters of setMessages --------------------------------------

\* last?.role === 'assistant'
LastIsAssistant(msgs) == msgs # <<>> /\ Last(msgs).role = "assistant"

\* A mutant: the token replaces the text instead of extending it.
AppendTokenOverwrite(full, ev) == StringOr(ev, "content", "")

\* fullContent += event.content || ''
AppendToken(full, ev) == full \o StringOr(ev, "content", "")

\* case 'token'
TokenMessages(msgs, full) ==
  IF LastIsAssistant(msgs)
  THEN [msgs EXCEPT ![Len(msgs)] =
          Spread(@, [content |-> full, isStreaming |-> TRUE])]
  ELSE msgs

\* case 'tool_call': the record pushed on activeToolCalls.current
NewToolCall(ev) ==
  [name      |-> StringOr(ev, "name", ""),
   arguments |-> IF "arguments" \in DOMAIN ev THEN ev.arguments ELSE <<>>,
   result    |-> [success |-> FALSE]]

\* case 'tool_call' and case 'tool_result'
ToolCallsMessages(msgs, calls) ==
  IF LastIsAssistant(msgs)
  THEN [msgs EXCEPT ![Len(msgs)] = Spread(@, [toolCalls |-> calls])]
  ELSE msgs

\* activeToolCalls.current.findIndex(tc => tc.name === event.name); 0 for -1
FindIndex(calls, name) ==
  IF \E i \in 1..Len(calls) : calls[i].name = name
  THEN CHOOSE i \in 1..Len(calls) :
         /\ calls[i].name = name
         /\ \A j \in 1..(i - 1) : calls[j].name # name
  ELSE 0

\* A mutant: no tool_result is ever stored.
StoresResultNever(calls, ev) == FALSE

\* if (idx >= 0 && event.result): whether the event stores its result
StoresResult(calls, ev) ==
  /\ "name" \in DOMAIN ev
  /\ FindIndex(calls, ev.name) > 0
  /\ "result" \in DOMAIN ev

\* case 'tool_result': activeToolCalls.current afterwards
ApplyResult(calls, ev) ==
  IF StoresResult(calls, ev)
  THEN [calls EXCEPT ![FindIndex(calls, ev.name)] = Spread(@, [result |-> ev.result])]
  ELSE calls

\* case 'done'
DoneMessages(msgs, full, calls) ==
  IF LastIsAssistant(msgs)
  THEN [msgs EXCEPT ![Len(msgs)] =
          IF calls # <<>>
          THEN Spread(@, [content |-> full, isStreaming |-> FALSE, toolCalls |-> calls])
          ELSE Without(Spread(@, [content |-> full, isStreaming |-> FALSE]), "toolCalls")]
  ELSE msgs

\* No updater has thrown.
NoRenderError == "<none>"

\* What reading fullContent in the finally block throws: the variable is
\* declared by let inside the try block, so it is not in scope there.
FullContentNotDefined == "ReferenceError: fullContent is not defined"

\* finally: the updater of setMessages.  When the last message is a streaming
\* assistant turn the updater reads fullContent and throws; otherwise it
\* returns a copy of the list.
FinallyMessages(msgs) ==
  [threw |-> LastIsAssistant(msgs) /\ Streaming(Last(msgs)), value |-> msgs]

\* ---- useChat: sendMessage ----------------------------------------------------

ChatIdle ==
  /\ messages = <<>>
  /\ isStreaming = FALSE
  /\ conversationId = NullId
  /\ error = NullError
  /\ activeToolCalls = <<>>
  /\ fullContent = ""
  /\ pc = "idle"
  /\ exit = "none"
  /\ renderError = NoRenderError
  /\ processed = <<>>
  /\ resolved = {}

\* A mutant: activeToolCalls is not reset at the start of a send.
SendMessageNoReset(text) ==
  /\ pc = "idle"
  /\ error' = NullError
  /\ messages' = messages \o <<[role |-> "user", content |-> text],
                               [role |-> "assistant", content |-> "",
                                isStreaming |-> TRUE]>>
  /\ isStreaming' = TRUE
  /\ fullContent' = ""
  /\ pc' = "streaming"
  /\ UNCHANGED <<conversationId, exit, processed, resolved, activeToolCalls>>
  /\ UNCHANGED renderError
  /\ UNCHANGED <<decoderVars, convVars, storeVars, restVars>>

\* sendMessage up to its first await: the user message, the placeholder of
\* the assistant turn, the stream.
SendMessage(text) ==
  /\ pc = "idle"
  /\ error' = NullError
  /\ messages' = messages \o <<[role |-> "user", content |-> text],
                               [role |-> "assistant", content |-> "",
                                isStreaming |-> TRUE]>>
  /\ isStreaming' = TRUE
  /\ activeToolCalls' = <<>>
  /\ fullContent' = ""
  /\ pc' = "streaming"
  /\ UNCHANGED <<conversationId, exit, processed, resolved>>
  /\ UNCHANGED renderError
  /\ UNCHANGED <<decoderVars, convVars, storeVars, restVars>>

\* The stream hands over one more value.
Delivers(ev) ==
  /\ pc = "streaming"
  /\ Len(processed) < MaxEvents
  /\ processed' = Append(processed, ev)

\* case 'conversation_id'
OnConversationId(ev) ==
  /\ Delivers(ev)
  /\ IsType(ev, "conversation_id")
  /\ conversationId' = IF "id" \in DOMAIN ev /\ ev.id # 0 THEN ev.id ELSE conversationId
  /\ UNCHANGED <<messages, isStreaming, error, activeToolCalls, fullContent, pc,
                 exit, resolved>>
  /\ UNCHANGED renderError
  /\ UNCHANGED <<decoderVars, convVars, storeVars, restVars>>

\* case 'token'
OnToken(ev) ==
  /\ Delivers(ev)
  /\ IsType(ev, "token")
  /\ fullContent' = AppendToken(fullContent, ev)
  /\ messages' = TokenMessages(messages, fullContent')
  /\ UNCHANGED <<isStreaming, conversationId, error, activeToolCalls, pc, exit,
                 resolved>>
  /\ UNCHANGED renderError
  /\ UNCHANGED <<decoderVars, convVars, storeVars, restVars>>

\* case 'tool_call'
OnToolCall(ev) ==
  /\ Delivers(ev)
  /\ IsType(ev, "tool_call")
  /\ activeToolCalls' = Append(activeToolCalls, NewToolCall(ev))
  /\ messages' = ToolCallsMessages(messages, activeToolCalls')
  /\ UNCHANGED <<isStreaming, conversationId, error, fullContent, pc, exit,
                 resolved>>
  /\ UNCHANGED renderError
  /\ UNCHANGED <<decoderVars, convVars, storeVars, restVars>>

\* case 'tool_result'
OnToolResult(ev) ==
  /\ Delivers(ev)
  /\ IsType(ev, "tool_result")
  /\ activeToolCalls' = ApplyResult(activeToolCalls, ev)
  /\ messages' = ToolCallsMessages(messages, activeToolCalls')
  /\ resolved' = IF StoresResult(activeToolCalls, ev)
                 THEN resolved \cup {FindIndex(activeToolCalls, ev.name)}
                 ELSE resolved
  /\ UNCHANGED <<isStreaming, conversationId, error, fullContent, pc, exit>>
  /\ UNCHANGED renderError
  /\ UNCHANGED <<decoderVars, convVars, storeVars, restVars>>

\* case 'done'
OnDone(ev) ==
  /\ Delivers(ev)
  /\ IsType(ev, "done")
  /\ messages' = DoneMessages(messages, fullContent, activeToolCalls)
  /\ UNCHANGED <<isStreaming, conversationId, error, activeToolCalls, fullContent,
                 pc, exit, resolved>>
  /\ UNCHANGED renderError
  /\ UNCHANGED <<decoderVars, convVars, storeVars, restVars>>

\* A mutant: an error event ends the event loop.
OnErrorEnds(ev) ==
  /\ Delivers(ev)
  /\ IsType(ev, "error")
  /\ error' = StringOr(ev, "content", "Unknown error")
  /\ pc' = "ended"
  /\ UNCHANGED <<messages, isStreaming, conversationId, activeToolCalls,
                 fullContent, exit, resolved>>
  /\ UNCHANGED renderError
  /\ UNCHANGED <<decoderVars, convVars, storeVars, restVars>>

\* case 'error'
OnError(ev) ==
  /\ Delivers(ev)
  /\ IsType(ev, "error")
  /\ error' = StringOr(ev, "content", "Unknown error")
  /\ UNCHANGED <<messages, isStreaming, conversationId, activeToolCalls,
                 fullContent, pc, exit, resolved>>
  /\ UNCHANGED renderError
  /\ UNCHANGED <<decoderVars, convVars, storeVars, restVars>>

\* A value whose type matches no case of the switch.
OnOther(ev) ==
  /\ Delivers(ev)
  /\ ev.json # "null"
  /\ TypeOf(ev) \notin KnownTypes
  /\ UNCHANGED <<messages, isStreaming, conversationId, error, activeToolCalls,
                 fullContent, pc, exit, resolved>>
  /\ UNCHANGED renderError
  /\ UNCHANGED <<decoderVars, convVars, storeVars, restVars>>

\* catch, then finally
\* finally: setIsStreaming(false), then the updater of setMessages.
Finally ==
  /\ isStreaming' = FALSE
  /\ LET f == FinallyMessages(messages)
     IN  /\ messages' = f.value
         /\ renderError' = IF f.threw THEN FullContentNotDefined ELSE renderError
  /\ pc' = "ended"

Caught(message) ==
  /\ error' = message
  /\ Finally
  /\ exit' = "threw"

\* null: reading event.type throws a TypeError inside the try block.
OnNull(ev) ==
  /\ Delivers(ev)
  /\ ev.json = "null"
  /\ Caught("Cannot read properties of null (reading 'type')")
  /\ UNCHANGED <<conversationId, activeToolCalls, fullContent, resolved>>
  /\ UNCHANGED <<decoderVars, convVars, storeVars, restVars>>

\* streamChat throws: a non-success response, no body, a failed read.
StreamThrows(message) ==
  /\ pc = "streaming"
  /\ Caught(message)
  /\ UNCHANGED <<conversationId, activeToolCalls, fullContent, processed, resolved>>
  /\ UNCHANGED <<decoderVars, convVars, storeVars, restVars>>

\* The stream is exhausted: the loop ends, then finally.
StreamEnds ==
  /\ pc = "streaming"
  /\ Finally
  /\ exit' = "exhausted"
  /\ UNCHANGED <<conversationId, error, activeToolCalls, fullContent, processed,
                 resolved>>
  /\ UNCHANGED <<decoderVars, convVars, storeVars, restVars>>

\* ---- the assembler's specification -------------------------------------------

DecoderIdle ==
  /\ wireLines = <<>>
  /\ rpos = 0
  /\ decPending = <<>>
  /\ buffer = <<>>
  /\ yielded = <<>>
  /\ dstate = "init"

\* No sendMessage call has been made.
ConvIdle ==
  /\ sends = <<>>
  /\ origin = <<>>
  /\ aborted = {}

\* The store as the module's top level leaves it.
StoreIdle ==
  /\ _state = [items |-> <<>>, query |-> ""]
  /\ _listeners = <<>>
  /\ created = 0
  /\ published = <<>>
  /\ notified = <<>>
  /\ lifetime = <<>>

\* No cleanup handle called, no component rendered, no mapping made.
RestIdle ==
  /\ released = [l \in 1..MaxListeners |-> 0]
  /\ views = <<>>
  /\ toolName = ""
  /\ data = <<>>
  /\ mapped = [called |-> FALSE]

Init == ChatIdle /\ DecoderIdle /\ ConvIdle /\ StoreIdle /\ RestIdle

Next ==
  \/ SendMessage("hello")
  \/ \E ev \in Delivered : OnConversationId(ev)
  \/ \E ev \in Delivered : OnToken(ev)
  \/ \E ev \in Delivered : OnToolCall(ev)
  \/ \E ev \in Delivered : OnToolResult(ev)
  \/ \E ev \in Delivered : OnDone(ev)
  \/ \E ev \in Delivered : OnError(ev)
  \/ \E ev \in Delivered : OnOther(ev)
  \/ \E ev \in Delivered : OnNull(ev)
  \/ StreamThrows("Chat error: 500")
  \/ StreamEnds

Spec == Init /\ [][Next]_vars

\* ---- the assembler's specification, for a second turn -------------------------

\* The tool calls of a first turn that has ended with a done event.
EarlierCalls == {<<NewToolCall(EvCallVotes)>>, <<NewToolCall(EvCallVotes), NewToolCall(EvCallMeetings)>>}

\* The state after a first sendMessage has returned: its turn is final, and
\* activeToolCalls.current still holds its invocations.
SecondInit ==
  /\ \E calls \in EarlierCalls :
       /\ activeToolCalls = calls
       /\ messages = DoneMessages(<<[role |-> "user", content |-> "hello"],
                                    [role |-> "assistant", content |-> "",
                                     isStreaming |-> TRUE]>>, "a", calls)
  /\ isStreaming = FALSE
  /\ conversationId = NullId
  /\ error = NullError
  /\ fullContent = "a"
  /\ pc = "idle"
  /\ exit = "none"
  /\ renderError = NoRenderError
  /\ processed = <<>>
  /\ resolved = {}
  /\ DecoderIdle /\ ConvIdle /\ StoreIdle /\ RestIdle

SecondDelivered ==
  {EvTokenA, EvCallMeetings, EvCallVotes, EvResultRows, EvDone, EvError, JsonNull}

SecondNext ==
  \/ SendMessage("again")
  \/ \E ev \in SecondDelivered : OnToken(ev)
  \/ \E ev \in SecondDelivered : OnToolCall(ev)
  \/ \E ev \in SecondDelivered : OnToolResult(ev)
  \/ \E ev \in SecondDelivered : OnDone(ev)
  \/ \E ev \in SecondDelivered : OnError(ev)
  \/ \E ev \in SecondDelivered : OnNull(ev)
  \/ StreamThrows("Chat error: 500")
  \/ StreamEnds

SpecSecond == SecondInit /\ [][SecondNext]_vars

\* ---- the assembler's specification, for conversation ids ------------------------

EvConversationIdNext == [json |-> "object", type |-> "conversation_id", id |-> 8]

EvConversationIdZero == [json |-> "object", type |-> "conversation_id", id |-> 0]

IdDelivered ==
  {EvConversationId, EvConversationIdNext, EvConversationIdZero, EvTokenA, EvDone,
   EvError}

IdNext ==
  \/ SendMessage("hello")
  \/ \E ev \in IdDelivered : OnConversationId(ev)
  \/ \E ev \in IdDelivered : OnToken(ev)
  \/ \E ev \in IdDelivered : OnDone(ev)
  \/ \E ev \in IdDelivered : OnError(ev)
  \/ StreamThrows("Chat error: 500")
  \/ StreamEnds

SpecIds == Init /\ [][IdNext]_vars

\* ---- the assembler's specification, for a send that ends ------------------------

LiveDelivered == {EvTokenA, EvCallMeetings, EvDone, EvError}

LiveNext ==
  \/ SendMessage("hello")
  \/ \E ev \in LiveDelivered : OnToken(ev)
  \/ \E ev \in LiveDelivered : OnToolCall(ev)
  \/ \E ev \in LiveDelivered : OnDone(ev)
  \/ \E ev \in LiveDelivered : OnError(ev)
  \/ StreamThrows("Chat error: 500")
  \/ StreamEnds

\* The operator sends, and a stream that has started ends: the server
\* closes the response or the read fails.
SpecLive ==
  /\ Init
  /\ [][LiveNext]_vars
  /\ WF_vars(SendMessage("hello"))
  /\ WF_vars(StreamThrows("Chat error: 500") \/ StreamEnds)

\* ---- the decoder's specification -------------------------------------------

Bodies == UNION {[1..n -> LineKinds] : n \in 0..MaxLines}

DecodeInit ==
  /\ wireLines \in Bodies
  /\ rpos = 0
  /\ decPending = <<>>
  /\ buffer = <<>>
  /\ yielded = <<>>
  /\ dstate = "init"
  /\ ChatIdle
  /\ ConvIdle
  /\ StoreIdle
  /\ RestIdle

DecodeNext ==
  \/ FetchOk
  \/ FetchFail
  \/ LET body == wire IN \E n \in 1..(Len(body) - rpos) : ReadChunk(body, n)
  \/ ReadDone
  \/ ReadFail

SpecDecode == DecodeInit /\ [][DecodeNext]_vars

\* ---- useChat under several sendMessage calls, with ChatPage --------------------

\* The variables of the single call of Spec.
sendVars == <<fullContent, pc, exit, processed, resolved>>

ConvDelivered ==
  {EvConversationId, EvTokenA, EvCallMeetings, EvResultRows, EvDone, EvError}

\* The component that holds the hook is mounted: no render has failed.
Mounted == renderError = NoRenderError

\* The calls whose event loop is running.
StreamingCalls == {c \in 1..Len(sends) : sends[c].pc = "streaming"}

\* The conversation getConversation resolves with, as ChatPage maps it.
LoadedId == 5

LoadedMessages ==
  <<[role |-> "user", content |-> "q"], [role |-> "assistant", content |-> "answer"]>>

\* sendMessage up to its first await.  The hook does not look at isStreaming.
ConvSend(text) ==
  /\ Mounted
  /\ Len(sends) < MaxSends
  /\ error' = NullError
  /\ messages' = messages \o <<[role |-> "user", content |-> text],
                               [role |-> "assistant", content |-> "",
                                isStreaming |-> TRUE]>>
  /\ isStreaming' = TRUE
  /\ activeToolCalls' = <<>>
  /\ sends' = Append(sends, [pc |-> "streaming", fullContent |-> "", delivered |-> 0])
  /\ origin' = origin \o <<0, Len(sends) + 1>>
  /\ aborted' = aborted \cup StreamingCalls
  /\ UNCHANGED <<conversationId, renderError>>
  /\ UNCHANGED <<sendVars, decoderVars, storeVars, restVars>>

\* The stream of call c hands over one more value.
ConvDelivers(c, ev) ==
  /\ Mounted
  /\ c \in StreamingCalls
  /\ sends[c].delivered < MaxConvEvents
  /\ UNCHANGED <<isStreaming, renderError, origin, aborted>>
  /\ UNCHANGED <<sendVars, decoderVars, storeVars, restVars>>

\* The calls after call c has taken a value and holds the text full.
Took(c, full) ==
  [sends EXCEPT ![c] = [@ EXCEPT !.delivered = @ + 1, !.fullContent = full]]

\* case 'conversation_id'
ConvConversationId(c, ev) ==
  /\ ConvDelivers(c, ev)
  /\ IsType(ev, "conversation_id")
  /\ conversationId' = IF "id" \in DOMAIN ev /\ ev.id # 0 THEN ev.id ELSE conversationId
  /\ sends' = Took(c, sends[c].fullContent)
  /\ UNCHANGED <<messages, error, activeToolCalls>>

\* case 'token'
ConvToken(c, ev) ==
  /\ ConvDelivers(c, ev)
  /\ IsType(ev, "token")
  /\ LET full == AppendToken(sends[c].fullContent, ev)
     IN  /\ sends' = Took(c, full)
         /\ messages' = TokenMessages(messages, full)
  /\ UNCHANGED <<conversationId, error, activeToolCalls>>

\* case 'tool_call'
ConvToolCall(c, ev) ==
  /\ ConvDelivers(c, ev)
  /\ IsType(ev, "tool_call")
  /\ activeToolCalls' = Append(activeToolCalls, NewToolCall(ev))
  /\ messages' = ToolCallsMessages(messages, activeToolCalls')
  /\ sends' = Took(c, sends[c].fullContent)
  /\ UNCHANGED <<conversationId, error>>

\* case 'tool_result'
ConvToolResult(c, ev) ==
  /\ ConvDelivers(c, ev)
  /\ IsType(ev, "tool_result")
  /\ activeToolCalls' = ApplyResult(activeToolCalls, ev)
  /\ messages' = ToolCallsMessages(messages, activeToolCalls')
  /\ sends' = Took(c, sends[c].fullContent)
  /\ UNCHANGED <<conversationId, error>>

\* case 'done'
ConvDone(c, ev) ==
  /\ ConvDelivers(c, ev)
  /\ IsType(ev, "done")
  /\ messages' = DoneMessages(messages, sends[c].fullContent, activeToolCalls)
  /\ sends' = Took(c, sends[c].fullContent)
  /\ UNCHANGED <<conversationId, error, activeToolCalls>>

\* case 'error'
ConvError(c, ev) ==
  /\ ConvDelivers(c, ev)
  /\ IsType(ev, "error")
  /\ error' = StringOr(ev, "content", "Unknown error")
  /\ sends' = Took(c, sends[c].fullContent)
  /\ UNCHANGED <<messages, conversationId, activeToolCalls>>

\* finally, in call c
ConvFinally(c) ==
  /\ Mounted
  /\ c \in StreamingCalls
  /\ isStreaming' = FALSE
  /\ LET f == FinallyMessages(messages)
     IN  /\ messages' = f.value
         /\ renderError' = IF f.threw THEN FullContentNotDefined ELSE renderError
  /\ sends' = [sends EXCEPT ![c] = [@ EXCEPT !.pc = "ended"]]
  /\ UNCHANGED <<conversationId, activeToolCalls, origin, aborted>>
  /\ UNCHANGED <<sendVars, decoderVars, storeVars, restVars>>

\* The stream of call c is exhausted.
ConvEnds(c) ==
  /\ ConvFinally(c)
  /\ UNCHANGED error

\* streamChat throws in call c.
ConvThrows(c, message) ==
  /\ ConvFinally(c)
  /\ error' = message

\* ChatPage, the effect on urlId: getConversation resolved.
LoadConversation ==
  /\ Mounted
  /\ LoadedId # conversationId
  /\ conversationId' = LoadedId
  /\ messages' = LoadedMessages
  /\ origin' = [i \in 1..Len(LoadedMessages) |-> 0]
  /\ aborted' = aborted \cup StreamingCalls
  /\ UNCHANGED <<isStreaming, error, activeToolCalls, renderError, sends>>
  /\ UNCHANGED <<sendVars, decoderVars, storeVars, restVars>>

\* ChatPage.handleNewChat
NewChat ==
  /\ Mounted
  /\ conversationId' = NullId
  /\ messages' = <<>>
  /\ origin' = <<>>
  /\ aborted' = aborted \cup StreamingCalls
  /\ UNCHANGED <<isStreaming, error, activeToolCalls, renderError, sends>>
  /\ UNCHANGED <<sendVars, decoderVars, storeVars, restVars>>

ConvNext ==
  \/ ConvSend("hello")
  \/ \E c \in 1..Len(sends), ev \in ConvDelivered : ConvConversationId(c, ev)
  \/ \E c \in 1..Len(sends), ev \in ConvDelivered : ConvToken(c, ev)
  \/ \E c \in 1..Len(sends), ev \in ConvDelivered : ConvToolCall(c, ev)
  \/ \E c \in 1..Len(sends), ev \in ConvDelivered : ConvToolResult(c, ev)
  \/ \E c \in 1..Len(sends), ev \in ConvDelivered : ConvDone(c, ev)
  \/ \E c \in 1..Len(sends), ev \in ConvDelivered : ConvError(c, ev)
  \/ \E c \in 1..Len(sends) : ConvEnds(c)
  \/ \E c \in 1..Len(sends) : ConvThrows(c, "Chat error: 500")
  \/ LoadConversation
  \/ NewChat

SpecConv == Init /\ [][ConvNext]_vars

\* ---- resultsStore ----------------------------------------------------------------

\* The item lists and queries passed to setResults.
ItemLists == {<<"A", "B">>, <<"C">>}

Queries == {"supervisors", "budget"}

\* A mutant: the query is not stored.
BatchNoQuery(items, query) == [items |-> items, query |-> ""]

\* _state = { items, query }
Batch(items, query) == [items |-> items, query |-> query]

\* A mutant: the listeners are called last first.
NotifyReversed(listeners) ==
  [k \in 1..Len(listeners) |-> listeners[Len(listeners) + 1 - k]]

\* _listeners.forEach(fn => fn()): the listeners called, in order.  A Set is
\* visited in insertion order; a listener only calls forceUpdate, which
\* neither adds to the set nor deletes from it while it is visited.
Notify(listeners) == listeners

\* _listeners.add(listener)
SetAdd(listeners, l) ==
  IF \E k \in 1..Len(listeners) : listeners[k] = l THEN listeners
  ELSE Append(listeners, l)

\* A mutant: the handle adds the listener back when it is not in the set.
SetToggle(listeners, l) ==
  IF \E k \in 1..Len(listeners) : listeners[k] = l
  THEN SelectSeq(listeners, LAMBDA x : x # l)
  ELSE Append(listeners, l)

\* A mutant: the cleanup leaves the listener in the set.
SetDeleteNothing(listeners, l) == listeners

\* _listeners.delete(listener)
SetDelete(listeners, l) == SelectSeq(listeners, LAMBDA x : x # l)

\* getResults()
getResults == _state

\* setResults(items, query): replace the state, then notify.  Each listener
\* call is logged with the state it reads.
setResults(items, query) ==
  /\ Len(published) < MaxPublishes
  /\ _state' = Batch(items, query)
  /\ published' = Append(published, Batch(items, query))
  /\ LET called == Notify(_listeners)
     IN  notified' = notified \o
           [k \in 1..Len(called) |->
              [listener |-> called[k], publish |-> Len(published) + 1,
               seen |-> _state']]
  /\ UNCHANGED <<_listeners, created, lifetime>>
  /\ UNCHANGED <<decoderVars, chatVars, convVars, restVars>>

\* useResults, the effect: a new listener is added.
useResults ==
  /\ created < MaxListeners
  /\ created' = created + 1
  /\ _listeners' = SetAdd(_listeners, created + 1)
  /\ lifetime' = Append(lifetime, [from |-> Len(published), to |-> -1])
  /\ UNCHANGED <<_state, published, notified>>
  /\ UNCHANGED <<decoderVars, chatVars, convVars, restVars>>

\* useResults, the effect's cleanup: the listener is deleted.
useResultsCleanup(l) ==
  /\ l \in 1..created
  /\ lifetime[l].to = -1
  /\ _listeners' = SetDelete(_listeners, l)
  /\ lifetime' = [lifetime EXCEPT ![l] = [@ EXCEPT !.to = Len(published)]]
  /\ UNCHANGED <<_state, created, published, notified>>
  /\ UNCHANGED <<decoderVars, chatVars, convVars, restVars>>

StoreNext ==
  \/ \E items \in ItemLists, query \in Queries : setResults(items, query)
  \/ useResults
  \/ \E l \in 1..MaxListeners : useResultsCleanup(l)

SpecStore == Init /\ [][StoreNext]_vars

\* ---- resultsStore: the cleanup handle called more than once ----------------------

\* () => { _listeners.delete(listener) }: the handle the effect returns,
\* called by whoever holds it, any number of times.
Unsubscribe(l) ==
  /\ l \in 1..created
  /\ released[l] < MaxReleases
  /\ released' = [released EXCEPT ![l] = @ + 1]
  /\ _listeners' = SetDelete(_listeners, l)
  /\ lifetime' = [lifetime EXCEPT ![l] =
                    IF @.to = -1 THEN [@ EXCEPT !.to = Len(published)] ELSE @]
  /\ UNCHANGED <<_state, created, published, notified>>
  /\ UNCHANGED <<views, toolName, data, mapped>>
  /\ UNCHANGED <<decoderVars, chatVars, convVars>>

UnsubscribeNext ==
  \/ setResults(<<"C">>, "budget")
  \/ useResults
  \/ \E l \in 1..MaxListeners : Unsubscribe(l)

SpecUnsubscribe == Init /\ [][UnsubscribeNext]_vars

\* ---- resultsStore: what a component using useResults displays -------------------

\* useResults, the render: the component displays the state it reads; its
\* effect has not run yet. views[c].at is the number of batches published
\* before the render.
useResultsRender ==
  /\ Len(views) < MaxListeners
  /\ views' = Append(views, [shown |-> _state, at |-> Len(published)])
  /\ UNCHANGED <<released, toolName, data, mapped>>
  /\ UNCHANGED <<decoderVars, chatVars, convVars, storeVars>>

\* useResults, the effect of the component rendered earliest among those
\* whose effect has not run.
useResultsEffect ==
  /\ created < Len(views)
  /\ useResults

\* forceUpdate has been called for the component since its last render.
Pending(c) ==
  \E k \in 1..Len(notified) :
    notified[k].listener = c /\ notified[k].publish > views[c].at

\* forceUpdate(n => n + 1): the component renders again and reads the state.
forceUpdate(c) ==
  /\ c \in 1..Len(views)
  /\ Pending(c)
  /\ views' = [views EXCEPT ![c] = [shown |-> _state, at |-> Len(published)]]
  /\ UNCHANGED <<released, toolName, data, mapped>>
  /\ UNCHANGED <<decoderVars, chatVars, convVars, storeVars>>

ShowNext ==
  \/ useResultsRender
  \/ useResultsEffect
  \/ \E items \in ItemLists, query \in Queries : setResults(items, query)
  \/ \E c \in 1..MaxListeners : forceUpdate(c)

SpecShow == Init /\ [][ShowNext]_vars

\* ---- ToolCallIndicator: the result mapper ----------------------------------------

\* JavaScript values of a result record: strings, numbers, null, undefined,
\* and objects (records tagged "object" whose other fields are values).
VStr(s) == [json |-> "string", s |-> s]

VNum(n) == [json |-> "number", n |-> n]

JsUndefined == [json |-> "undefined"]

\* typeof item === 'object' && item !== null
IsObject(v) == v.json = "object"

\* o.f
Get(o, f) == IF f \in DOMAIN o THEN o[f] ELSE JsUndefined

\* !!v
Truthy(v) ==
  CASE v.json = "string" -> v.s # ""
    [] v.json = "number" -> v.n # 0
    [] v.json = "object" -> TRUE
    [] OTHER             -> FALSE

\* A string of 121 characters, and its first 120.
LongText == "<121 characters>"

LongTextCut == "<the first 120 of 121 characters>"

\* Number.prototype.toString for the numbers of the model
NumText(n) ==
  CASE n = 0 -> "0" [] n = 1 -> "1" [] n = 2 -> "2" [] n = 3 -> "3" [] n = 42 -> "42"

\* String(v)
String(v) ==
  CASE v.json = "string"    -> v.s
    [] v.json = "number"    -> NumText(v.n)
    [] v.json = "null"      -> "null"
    [] v.json = "undefined" -> "undefined"
    [] v.json = "object"    -> "[object Object]"

\* s.slice(0, 120)
Slice120(s) == IF s = LongText THEN LongTextCut ELSE s

\* s.slice(0, 8): every meeting id of the model is shorter than 8
Slice8(s) == s

TitleFields ==
  <<"title", "subject", "name", "canonical_name", "item_description",
    "display_name", "pretty_id", "question", "text">>

\* o.title ?? o.subject ?? ...: the value of the first field that is neither
\* undefined nor null, undefined if there is none
Coalesce(o, fs) ==
  LET set == {k \in 1..Len(fs) : Get(o, fs[k]).json \notin {"undefined", "null"}}
  IN  IF set = {} THEN JsUndefined
      ELSE o[fs[CHOOSE k \in set : \A j \in set : k <= j]]

\* itemTitle
itemTitle(item) ==
  IF ~IsObject(item) THEN String(item)
  ELSE LET val == Coalesce(item, TitleFields)
       IN  IF ~Truthy(val) THEN "Result" ELSE Slice120(String(val))

MEETING_TOOLS == {"search_meetings"}

VOTE_TOOLS == {"search_votes", "get_meeting_votes"}

\* isMeetingRecord
isMeetingRecord(item) == IsObject(item) /\ "meeting_id" \in DOMAIN item

\* isVoteRecord
isVoteRecord(item) == IsObject(item) /\ "vote_id" \in DOMAIN item

\* toolSpoke, for the tools of the model
toolSpoke(name) ==
  CASE name \in {"search_meetings", "search_votes", "get_meeting_votes"} -> "civic_media"
    [] name = "search_files" -> "shasta_db"
    [] OTHER -> "unknown"

\* a || b
Or(a, b) == IF Truthy(a) THEN a ELSE b

\* m.meeting_id.slice(0, 8) throws a TypeError unless meeting_id is a string;
\* it is evaluated only when m.title is falsy.
MeetingRaises(m) == ~Truthy(Get(m, "title")) /\ Get(m, "meeting_id").json # "string"

MeetingItem(m) ==
  [id     |-> Get(m, "meeting_id"),
   source |-> "civic_media",
   type   |-> "video",
   title  |-> Or(Get(m, "title"), VStr("Meeting " \o Slice8(String(Get(m, "meeting_id"))))),
   date   |-> Or(Get(m, "meeting_date"), JsonNull),
   url    |-> "/meetings/" \o String(Get(m, "meeting_id"))]

VoteItem(v, i) ==
  [id      |-> VStr(String(Get(v, "meeting_id")) \o "_" \o NumText(i)),
   source  |-> "civic_media",
   type    |-> "vote",
   title   |-> Or(Get(v, "item_description"), VStr("Vote")),
   snippet |-> Or(Get(v, "outcome"), JsonNull),
   date    |-> Or(Get(v, "meeting_date"), JsonNull),
   url     |-> "/meetings/" \o String(Get(v, "meeting_id"))]

GenericItem(tool, item, i) ==
  [id     |-> VStr(NumText(i)),
   source |-> toolSpoke(tool),
   type   |-> "text",
   title  |-> VStr(itemTitle(item)),
   url    |-> "/"]

\* mapToResultItems: the items, or raised when the call throws.
mapToResultItems(tool, d) ==
  IF tool \in MEETING_TOOLS
  THEN LET kept == SelectSeq(d, isMeetingRecord)
       IN  IF \E k \in 1..Len(kept) : MeetingRaises(kept[k])
           THEN [raised |-> TRUE, items |-> <<>>]
           ELSE [raised |-> FALSE,
                 items  |-> [k \in 1..Len(kept) |-> MeetingItem(kept[k])]]
  ELSE IF tool \in VOTE_TOOLS
  THEN LET kept == SelectSeq(d, isVoteRecord)
       IN  [raised |-> FALSE,
            items  |-> [k \in 1..Len(kept) |-> VoteItem(kept[k], k - 1)]]
  ELSE [raised |-> FALSE,
        items  |-> [k \in 1..Len(d) |-> GenericItem(tool, d[k], k - 1)]]

\* An object with the given fields.
Obj(fields) ==
  [f \in DOMAIN fields \cup {"json"} |-> IF f = "json" THEN "object" ELSE fields[f]]

\* The records of the model's result arrays.
Records ==
  {VStr("s"), JsonNull, Obj(<<>>),
   Obj([title |-> VStr("X")]),
   Obj([meeting_id |-> VStr("m1"), title |-> VStr("Budget")]),
   Obj([meeting_id |-> VStr("m2")]),
   Obj([meeting_id |-> VNum(42)]),
   Obj([vote_id |-> VStr("v1"), meeting_id |-> VStr("m1"),
        item_description |-> VStr("Item 4")]),
   Obj([vote_id |-> VStr("v2")])}

\* The values a title field of the model's records holds.
TitleValue(f, kind) ==
  CASE kind = "null"  -> JsonNull
    [] kind = "empty" -> VStr("")
    [] kind = "long"  -> VStr(LongText)
    [] kind = "text"  -> VStr(f)

\* The records with at most two of the title fields.
TitleRecords ==
  LET names == {TitleFields[k] : k \in 1..Len(TitleFields)}
  IN  UNION {{Obj([f \in S |-> TitleValue(f, g[f])]) :
                g \in [S -> {"null", "empty", "long", "text"}]} :
             S \in {T \in SUBSET names : Cardinality(T) <= 2}}

Tools == {"search_meetings", "search_votes", "get_meeting_votes", "search_files", "my_tool"}

MapperInit ==
  /\ ChatIdle /\ DecoderIdle /\ ConvIdle /\ StoreIdle
  /\ released = [l \in 1..MaxListeners |-> 0]
  /\ views = <<>>
  /\ mapped = [called |-> FALSE]
  /\ \/ /\ toolName \in Tools
        /\ data \in UNION {[1..n -> Records] : n \in 0..MaxRecords}
     \/ /\ toolName = "search_files"
        /\ data \in {<<r>> : r \in TitleRecords}

\* The call mapToResultItems(toolName, data).
Map ==
  /\ ~mapped.called
  /\ mapped' = [called |-> TRUE] @@ mapToResultItems(toolName, data)
  /\ UNCHANGED <<released, views, toolName, data>>
  /\ UNCHANGED <<decoderVars, chatVars, convVars, storeVars>>

MapperNext == Map

SpecMapper == MapperInit /\ [][MapperNext]_vars

\* ---- ToolCallIndicator: 'View all' beside a conversation ------------------------

EvCallFiles ==
  [json |-> "object", type |-> "tool_call", name |-> "search_files",
   arguments |-> [q |-> "roads"]]

ResultStats == [success |-> TRUE, data |-> "stats"]

EvResultStats ==
  [json |-> "object", type |-> "tool_result", name |-> "search_files",
   result |-> ResultStats]

\* The events of a conversation whose tool calls are viewed.
ViewDelivered ==
  {EvTokenA, EvCallMeetings, EvCallFiles, EvResultRows, EvResultStats, EvDone}

\* Array.isArray(resultData), for the result data of the model: "rows" is an
\* array of three meeting records, "stats" a single object.
IsArray(d) == d = "rows"

\* The array a result's data is.
ArrayOf(d) ==
  <<Obj([meeting_id |-> VStr("m1"), title |-> VStr("Budget")]),
    Obj([meeting_id |-> VStr("m2")]),
    Obj([title |-> VStr("X")])>>

\* toolCall.result?.data, "undefined" when there is none
ResultData(toolCall) ==
  IF "result" \in DOMAIN toolCall /\ "data" \in DOMAIN toolCall.result
  THEN toolCall.result.data ELSE "undefined"

\* success && resultCount !== null && resultCount >= 3: the button is shown
ViewAllShown(toolCall) ==
  /\ HasResult(toolCall) /\ toolCall.result.success
  /\ IsArray(ResultData(toolCall))
  /\ Len(ArrayOf(ResultData(toolCall))) >= 3

\* String(toolCall.arguments?.query ?? toolCall.arguments?.q ?? '')
ViewQuery(toolCall) ==
  LET arguments == toolCall.arguments
  IN  IF "query" \in DOMAIN arguments THEN arguments.query
      ELSE IF "q" \in DOMAIN arguments THEN arguments.q
      ELSE ""

\* A mutant: only the first item is published.
ViewItemsPartial(toolCall) ==
  SubSeq(mapToResultItems(toolCall.name, ArrayOf(ResultData(toolCall))).items, 1, 1)

\* mapToResultItems(toolCall.name, resultArray)
ViewItems(toolCall) ==
  mapToResultItems(toolCall.name, ArrayOf(ResultData(toolCall))).items

\* handleViewAll, for the i-th invocation of the m-th message: a click on the
\* button, which is there only when ViewAllShown. A call of the mapper that
\* throws ends the handler before setResults.
ViewAll(m, i) ==
  /\ m \in 1..Len(messages)
  /\ i \in 1..Len(Invocations(messages[m]))
  /\ LET toolCall == Invocations(messages[m])[i]
     IN  /\ ViewAllShown(toolCall)
         /\ IsArray(ResultData(toolCall))
         /\ ~mapToResultItems(toolCall.name, ArrayOf(ResultData(toolCall))).raised
         /\ setResults(ViewItems(toolCall), ViewQuery(toolCall))

ViewNext ==
  \/ SendMessage("hello")
  \/ \E ev \in ViewDelivered : OnToken(ev)
  \/ \E ev \in ViewDelivered : OnToolCall(ev)
  \/ \E ev \in ViewDelivered : OnToolResult(ev)
  \/ \E ev \in ViewDelivered : OnDone(ev)
  \/ StreamEnds
  \/ \E m \in 1..2, i \in 1..MaxEvents : ViewAll(m, i)
  \/ useResults

SpecView == Init /\ [][ViewNext]_vars

\* ---- the decoder's specification, for a body that ends inside a line -------------

\* The bytes of a response body whose last line has no newline.
tailWire == IF wire = <<>> THEN <<>> ELSE Front(wire)

\* reader.read() resolved with done after the last byte of such a body.
ReadDoneTail ==
  /\ dstate = "reading"
  /\ rpos = Len(tailWire)
  /\ dstate' = "returned"
  /\ UNCHANGED <<wireLines, rpos, decPending, buffer, yielded>>
  /\ UNCHANGED <<chatVars, convVars, storeVars, restVars>>

TailNext ==
  \/ FetchOk
  \/ FetchFail
  \/ LET body == tailWire IN \E n \in 1..(Len(body) - rpos) : ReadChunk(body, n)
  \/ ReadDoneTail
  \/ ReadFail

SpecTail == DecodeInit /\ [][TailNext]_vars

\* ---- properties of streamChat -------------------------------------------------

\* The values the lines of a body are to yield, read off their kinds.
RECURSIVE ExpectedEvents(_)
ExpectedEvents(kinds) ==
  IF kinds = <<>> THEN <<>>
  ELSE (CASE Head(kinds) = "empty" -> <<EvEmpty>>
          [] Head(kinds) = "other" -> <<EvOther>>
          [] Head(kinds) = "null"  -> <<JsonNull>>
          [] OTHER                 -> <<>>)
       \o ExpectedEvents(Tail(kinds))

\* Every line of the body is 'data: ' followed by a JSON object.
EventLinesOnly ==
  \A i \in 1..Len(wireLines) : wireLines[i] \in {"empty", "other"}

\* C1: when every line of the body is an event line, then however the reader
\* cuts the body into chunks, the events yielded from the bytes read so far
\* are the events the same bytes yield as one chunk, and once the generator
\* has returned there is one event per line.
C1_SameEventsHoweverCut ==
  EventLinesOnly =>
    /\ yielded = ChunkStep(<<>>, <<>>, SubSeq(wire, 1, rpos)).events
    /\ dstate = "returned" =>
         /\ Len(yielded) = Len(wireLines)
         /\ yielded = ExpectedEvents(wireLines)

\* Two event lines; the first has been yielded, and the chunk boundary fell
\* inside the second line, between the two bytes of a character.
C1_Witness ==
  /\ wireLines = <<"empty", "other">>
  /\ dstate = "reading"
  /\ yielded = <<EvEmpty>>
  /\ decPending = <<LeadByte>>
  /\ buffer # <<>>

\* C8: a 'data: ' line that fails to parse yields nothing and does not end
\* the decoding: when the generator returns it has yielded the value of every
\* well-formed line, before and after the malformed ones, in order.
C8_MalformedLineSkipped ==
  dstate = "returned" => yielded = ExpectedEvents(wireLines)

\* A malformed line between two well-formed ones, both yielded.
C8_Witness ==
  /\ wireLines = <<"other", "bad", "empty">>
  /\ dstate = "returned"
  /\ yielded = <<EvOther, EvEmpty>>

\* ---- properties of sendMessage ----------------------------------------------

\* The assistant turn of the send.
Turn == Last(messages)

\* The stream has handed over one more value in this step.
Delivery == Len(processed') = Len(processed) + 1

DoneIn(evs) == \E i \in 1..Len(evs) : IsType(evs[i], "done")

\* The concatenation of the contents of the token events, in order.
RECURSIVE TokensText(_)
TokensText(evs) ==
  IF evs = <<>> THEN ""
  ELSE (IF IsType(Head(evs), "token") THEN Head(evs).content ELSE "")
       \o TokensText(Tail(evs))

\* The invocations of a name no tool_result has been applied to.
Unresolved(calls, applied, name) ==
  {i \in 1..Len(calls) : calls[i].name = name /\ i \notin applied}

\* What a reader of a turn sees of it.
TurnView(m) == <<m.content, Invocations(m), Streaming(m)>>

\* C2: when the stream ends and no done event was delivered, the turn is left
\* not streaming, with the content and invocations it would have had the
\* stream delivered a done event just before ending.
C2_ExhaustionEqualsDone ==
  [][(pc = "streaming" /\ pc' = "ended" /\ exit' = "exhausted" /\ ~DoneIn(processed))
       => /\ ~Streaming(Turn')
          /\ TurnView(Turn') =
               TurnView(Last(FinallyMessages(
                 DoneMessages(messages, fullContent, activeToolCalls)).value))]_vars

\* C3: a single tool_call named search_meetings and then the end of the
\* stream leave a turn that is not streaming and holds exactly one invocation,
\* named search_meetings and without a result, and no error.
C3_LoneToolCallStaysUnresolved ==
  (pc = "ended" /\ exit = "exhausted" /\ processed = <<EvCallMeetings>>)
    => /\ ~Streaming(Turn)
       /\ Len(Invocations(Turn)) = 1
       /\ Invocations(Turn)[1].name = "search_meetings"
       /\ ~HasResult(Invocations(Turn)[1])
       /\ error = NullError

\* C4: a tool_result stores its result in the most recently appended
\* invocation of its name that no tool_result has been applied to, and leaves
\* every other invocation as it was.
C4_ResultGoesToMostRecentUnresolved ==
  [][(/\ Delivery
      /\ IsType(Last(processed'), "tool_result")
      /\ Unresolved(Invocations(Turn), resolved, Last(processed').name) # {})
       => LET ev     == Last(processed')
              open   == Unresolved(Invocations(Turn), resolved, ev.name)
              target == CHOOSE i \in open : \A j \in open : j <= i
          IN  Invocations(Turn') =
                [Invocations(Turn) EXCEPT ![target] = Spread(@, [result |-> ev.result])]]_vars

\* C5: once a tool_result has been applied to an invocation, no step changes
\* that invocation's result.
C5_ResolvedAtMostOnce ==
  [][\A i \in resolved :
       Invocations(Turn')[i].result = Invocations(Turn)[i].result]_vars

\* C6: after a done event no step changes the turn's text or invocations or
\* leaves the turn streaming.
C6_DoneIsFinal ==
  [][DoneIn(processed)
       => /\ Turn'.content = Turn.content
          /\ Invocations(Turn') = Invocations(Turn)
          /\ ~Streaming(Turn')]_vars

\* C7: the text of the turn is the concatenation, in delivery order, of the
\* contents of the token events delivered so far.
C7_TextIsConcatenation ==
  pc # "idle" => Turn.content = TokensText(processed)

\* Two tokens with something between them, and the text holds both in order.
C7_Witness ==
  /\ pc = "streaming"
  /\ processed = <<EvTokenA, EvCallVotes, EvTokenB>>
  /\ Turn.content = "ab"

\* C9: a delivered value that is not a known event changes neither the
\* messages nor the error, and the loop goes on.
C9_UnknownValueDropped ==
  [][(/\ Delivery
      /\ ~(Last(processed').json = "object" /\ TypeOf(Last(processed')) \in KnownTypes))
       => /\ messages' = messages
          /\ error' = error
          /\ pc' = "streaming"]_vars

\* C10: a tool_result whose name has no invocation still without a result
\* applied leaves the invocations and the error as they were.
C10_UnmatchedResultDropped ==
  [][(/\ Delivery
      /\ IsType(Last(processed'), "tool_result")
      /\ Unresolved(Invocations(Turn), resolved, Last(processed').name) = {})
       => /\ Invocations(Turn') = Invocations(Turn)
          /\ error' = error]_vars

\* The tool_call and tool_result events among the delivered values, in order.
ToolEvents(evs) ==
  SelectSeq(evs, LAMBDA e : IsType(e, "tool_call") \/ IsType(e, "tool_result"))

CallsIn(evs) == Len(SelectSeq(evs, LAMBDA e : IsType(e, "tool_call")))

\* Two tool_call events of one name, then two tool_result events of that name.
TwoCallsTwoResults ==
  \E r1, r2 \in {EvResultRows, EvResultFailed} :
    ToolEvents(processed) = <<EvCallMeetings, EvCallMeetings, r1, r2>>

\* C11: no more invocations are resolved than tool_call events were
\* processed; and two tool_call events of one name followed by two
\* tool_result events of that name leave exactly two invocations, at least
\* one and at most two of them resolved, each resolved one holding a delivered
\* result.
C11_TwoCallsTwoResults ==
  /\ Cardinality(resolved) <= CallsIn(processed)
  /\ (pc # "idle" /\ TwoCallsTwoResults)
       => /\ Len(Invocations(Turn)) = 2
          /\ resolved \subseteq 1..2
          /\ Cardinality(resolved) \in 1..2
          /\ \A i \in resolved :
               Invocations(Turn)[i].result \in {ResultRows, ResultFailed}

\* Two calls and two results have been processed; one invocation is resolved.
C11_Witness ==
  /\ processed = <<EvCallMeetings, EvCallMeetings, EvResultRows, EvResultFailed>>
  /\ Len(Invocations(Turn)) = 2
  /\ Cardinality(resolved) = 1

\* C12: an invocation no tool_result has been applied to has no result, so
\* it cannot be taken for one resolved with success = false.
C12_PendingHasNoResult ==
  pc # "idle" =>
    \A i \in 1..Len(Invocations(Turn)) :
      i \notin resolved => ~HasResult(Invocations(Turn)[i])

\* C13: when streamChat throws, the error is recorded, the loop is left, the
\* turn keeps its text and invocations and is no longer streaming; and once
\* the loop is left no further value is processed.
C13_TransportFailureKeepsTurn ==
  [][/\ (pc = "streaming" /\ exit' = "threw" /\ processed' = processed)
          => /\ error' # NullError
             /\ pc' = "ended"
             /\ Turn'.content = Turn.content
             /\ Invocations(Turn') = Invocations(Turn)
             /\ ~Streaming(Turn')
     /\ pc = "ended" => processed' = processed]_vars

ErrorIn(evs) == \E i \in 1..Len(evs) : IsType(evs[i], "error")

\* C14: an error event sets the error to its message and changes nothing
\* else: not the messages, not the accumulated text or invocations, and the
\* loop goes on; a token or tool_call delivered after an error event is
\* applied to the turn as before.
C14_ErrorEventOnlySetsError ==
  [][Delivery =>
       LET ev == Last(processed')
       IN  /\ IsType(ev, "error")
                => /\ error' = ev.content
                   /\ messages' = messages
                   /\ fullContent' = fullContent
                   /\ activeToolCalls' = activeToolCalls
                   /\ pc' = "streaming"
           /\ (ErrorIn(processed) /\ IsType(ev, "token"))
                => /\ Turn'.content = Turn.content \o ev.content
                   /\ Streaming(Turn')
           /\ (ErrorIn(processed) /\ IsType(ev, "tool_call"))
                => Len(Invocations(Turn')) = Len(Invocations(Turn)) + 1]_vars

\* An error event between two tokens: the error is recorded, the turn holds
\* both tokens and is still streaming.
C14_Witness ==
  /\ pc = "streaming"
  /\ processed = <<EvTokenA, EvError, EvTokenB>>
  /\ error = "boom"
  /\ Turn.content = "ab"
  /\ Streaming(Turn)

\* ---- properties of useChat under several calls ----------------------------------

\* C15: at most one message of the list is marked as streaming, also when
\* sendMessage is called while an earlier call's stream has not ended.
C15_AtMostOneStreamingTurn ==
  Cardinality({i \in 1..Len(messages) : Streaming(messages[i])}) <= 1

\* C16: a step in which the stream of a call delivers a value changes no
\* message other than the assistant turn that call created.
C16_EventsTouchOnlyOwnTurn ==
  [][\A c \in 1..Len(sends) :
       (Len(sends') = Len(sends) /\ sends'[c].delivered = sends[c].delivered + 1)
         => \A i \in 1..Len(messages) :
              origin[i] # c => messages'[i] = messages[i]]_vars

\* C17: once the caller has abandoned a call's turn (a new chat, another
\* conversation loaded, a new sendMessage) the call's stream delivers nothing
\* more, and at the step that abandons it the turn is in the list, not
\* streaming, with the text accumulated so far.
C17_AbortCommitsTurn ==
  [][/\ \A c \in aborted : sends'[c].delivered = sends[c].delivered
     /\ \A c \in aborted' \ aborted :
          \E i \in 1..Len(messages') :
            /\ origin'[i] = c
            /\ ~Streaming(messages'[i])
            /\ messages'[i].content = sends[c].fullContent]_vars

\* ---- properties of resultsStore --------------------------------------------------

\* Listener l was registered when publish p was made.
RegisteredFor(l, p) ==
  /\ lifetime[l].from < p
  /\ lifetime[l].to = -1 \/ lifetime[l].to >= p

\* The listeners called for publish p, in the order of the calls.
CalledFor(p) ==
  LET calls == SelectSeq(notified, LAMBDA n : n.publish = p)
  IN  [k \in 1..Len(calls) |-> calls[k].listener]

C19_GetResultsIsLatest ==
  /\ getResults = IF published = <<>> THEN [items |-> <<>>, query |-> ""]
                  ELSE Last(published)
  /\ \A p \in 1..Len(published) :
       \E items \in ItemLists, query \in Queries :
         published[p] = [items |-> items, query |-> query]
  /\ \A k \in 1..Len(notified) : notified[k].seen = published[notified[k].publish]

\* Two different batches published with a listener registered: the state
\* is the second, and the listener read the first, then the second.
C19_Witness ==
  /\ published = <<[items |-> <<"A", "B">>, query |-> "supervisors"],
                   [items |-> <<"C">>, query |-> "budget"]>>
  /\ getResults = [items |-> <<"C">>, query |-> "budget"]
  /\ Len(notified) = 2
  /\ notified[1].seen = published[1]
  /\ notified[2].seen = published[2]

\* The number of calls of listener l for publish p.
TimesCalled(l, p) ==
  Cardinality({k \in 1..Len(notified) :
                 notified[k].listener = l /\ notified[k].publish = p})

\* C20: registering a listener calls no listener and leaves the state as it
\* was; and a listener has been called once for every publish made while it
\* was registered and never for any other publish.
C20_NoReplay ==
  [][/\ created' > created => (notified' = notified /\ getResults' = getResults)
     /\ \A l \in 1..created', p \in 1..Len(published') :
          TimesCalled(l, p)' = IF RegisteredFor(l, p)' THEN 1 ELSE 0]_vars

\* A publish, then a listener registered, then a second publish: the
\* listener was called for the second publish only, and between the two
\* getResults returned the first batch.
C20_Witness ==
  /\ Len(published) = 2
  /\ created = 1
  /\ lifetime[1].from = 1
  /\ Len(notified) = 1
  /\ notified[1].publish = 2

\* The listeners whose handle has not been called, in the order they were
\* registered.
StillRegistered ==
  SelectSeq([l \in 1..created |-> l], LAMBDA l : released[l] = 0)

\* C21: the set holds exactly the listeners whose handle was never called,
\* however often the handles of the others were called; a call of a handle
\* already called changes nothing in the store; and a listener is not called
\* for a publish made after the first call of its handle.
C21_UnsubscribeIdempotent ==
  [][/\ _listeners' = StillRegistered'
     /\ \A l \in 1..created :
          (released[l] >= 1 /\ released'[l] = released[l] + 1)
            => storeVars' = storeVars
     /\ \A l \in 1..created', p \in 1..Len(published') :
          (released'[l] >= 1 /\ lifetime'[l].to < p) => TimesCalled(l, p)' = 0]_vars

\* Two listeners; the handle of the first was called twice, then a publish
\* called the second only.
C21_Witness ==
  /\ created = 2
  /\ released[1] = 2
  /\ released[2] = 0
  /\ lifetime[1].to = 0
  /\ Len(published) = 1
  /\ CalledFor(1) = <<2>>

\* ---- properties of the result mapper ------------------------------------------------

\* The first of the title fields, in order, that holds a non-empty string;
\* 'Result' if there is none.
FirstNonEmpty(o) ==
  LET set == {k \in 1..Len(TitleFields) :
                /\ TitleFields[k] \in DOMAIN o
                /\ o[TitleFields[k]].json = "string"
                /\ o[TitleFields[k]].s # ""}
  IN  IF set = {} THEN "Result"
      ELSE o[TitleFields[CHOOSE k \in set : \A j \in set : k <= j]].s

\* C22: the generic title of a record is the first non-empty value among
\* the title fields in their order, and 'Result' when there is none.
C22_TitleIsFirstNonEmpty ==
  (mapped.called /\ toolName = "search_files")
    => \A k \in 1..Len(data) :
         IsObject(data[k]) => mapped.items[k].title = VStr(FirstNonEmpty(data[k]))

\* C23: mapToResultItems returns a list and does not throw.
C23_MapperNeverRaises ==
  mapped.called => ~mapped.raised

\* The records of d that are objects with the field f, in order.
Carrying(d, f) == SelectSeq(d, LAMBDA r : r.json = "object" /\ f \in DOMAIN r)

\* C30: for a tool of neither family there is one item per record, in
\* order, with the record's index as id; for a meeting tool one item per
\* record with a meeting_id, in order, with that id; for a vote tool one item
\* per record with a vote_id, in order.
C30_ItemsPerRecord ==
  mapped.called =>
    /\ ~mapped.raised
    /\ toolName \notin (MEETING_TOOLS \cup VOTE_TOOLS)
         => /\ Len(mapped.items) = Len(data)
            /\ \A k \in 1..Len(data) : mapped.items[k].id = VStr(NumText(k - 1))
            /\ \A j, k \in 1..Len(data) :
                 j # k => mapped.items[j].id # mapped.items[k].id
    /\ toolName \in MEETING_TOOLS
         => LET kept == Carrying(data, "meeting_id")
            IN  /\ Len(mapped.items) = Len(kept)
                /\ \A k \in 1..Len(kept) : mapped.items[k].id = kept[k].meeting_id
    /\ toolName \in VOTE_TOOLS
         => LET kept == Carrying(data, "vote_id")
            IN  /\ Len(mapped.items) = Len(kept)
                /\ \A k \in 1..Len(kept) :
                     mapped.items[k].title =
                       IF "item_description" \in DOMAIN kept[k]
                       THEN kept[k].item_description ELSE VStr("Vote")

\* ---- properties of 'View all' -------------------------------------------------------

\* The invocations on the page whose result is successful with an array as data.
ArrayCalls ==
  {tc \in UNION {{Invocations(messages[m])[i] : i \in 1..Len(Invocations(messages[m]))} :
                   m \in 1..Len(messages)} :
     /\ "result" \in DOMAIN tc /\ "data" \in DOMAIN tc.result
     /\ tc.result.data = "rows"}

\* The complete batch of a meeting tool's three rows: the two records with a
\* meeting_id, in order.
RowsBatch(tc) ==
  /\ Len(_state.items) = 2
  /\ _state.items[1].id = VStr("m1") /\ _state.items[1].title = VStr("Budget")
  /\ _state.items[2].id = VStr("m2") /\ _state.items[2].title = VStr("Meeting m2")
  /\ _state.query = tc.arguments.query

\* C24: a step of sendMessage (the send, an event, the end of the stream)
\* leaves the store as it is; a step that changes the store publishes
\* exactly one batch, the complete mapped rows of an invocation on the page
\* whose result data is an array.
C24_StoreChangesOnlyByViewAll ==
  [][/\ chatVars' # chatVars => storeVars' = storeVars
     /\ <<_state, published, notified>>' # <<_state, published, notified>>
          => /\ chatVars' = chatVars
             /\ Len(published') = Len(published) + 1
             /\ Last(published') = _state'
             /\ \E tc \in ArrayCalls : tc.name = "search_meetings" /\ RowsBatch(tc)']_vars

C24_Witness ==
  /\ Len(published) = 1
  /\ Len(_state.items) = 2
  /\ pc = "ended"
  /\ \E m \in 1..Len(messages) : \E i \in 1..Len(Invocations(messages[m])) :
       ResultData(Invocations(messages[m])[i]) = "stats"

\* ---- properties of a second turn ----------------------------------------------------

\* The name and arguments of each tool_call event, in order.
CallEvents(evs) ==
  LET calls == SelectSeq(evs, LAMBDA e : IsType(e, "tool_call"))
  IN  [k \in 1..Len(calls) |-> <<calls[k].name, calls[k].arguments>>]

\* The name and arguments of each invocation, in order.
CallEntries(m) ==
  [k \in 1..Len(Invocations(m)) |-> <<Invocations(m)[k].name, Invocations(m)[k].arguments>>]

\* C25: once a send has started, the invocations of its turn are, in order,
\* the tool_call events processed in this turn, with their names and
\* arguments: none is from the earlier turn, and no step removes or reorders
\* an entry.
C25_InvocationsAreThisTurnsCalls ==
  [][/\ pc' # "idle" => CallEntries(Turn') = CallEvents(processed')
     /\ pc # "idle"
          => /\ Len(Invocations(Turn')) >= Len(Invocations(Turn))
             /\ SubSeq(CallEntries(Turn'), 1, Len(Invocations(Turn))) = CallEntries(Turn)
     /\ messages'[2] = messages[2]]_vars

C25_Witness ==
  /\ pc = "ended"
  /\ Len(messages) = 4
  /\ Len(Invocations(messages[2])) = 2
  /\ Len(Invocations(Turn)) = 2
  /\ Invocations(Turn)[1].name = "search_meetings"
  /\ Invocations(Turn)[1].result = ResultRows
  /\ Invocations(Turn)[2].name = "search_votes"

\* ---- properties of the conversation id ----------------------------------------------

\* The conversation_id events among the events, in order.
IdEvents(evs) == SelectSeq(evs, LAMBDA e : IsType(e, "conversation_id"))

\* C26: when the stream has ended the recorded conversation id is the id of
\* the last conversation_id event processed, whatever number that is; and an
\* event of another type leaves the recorded id as it is.
C26_LastConversationIdWins ==
  [][/\ (pc' = "ended" /\ IdEvents(processed') # <<>>)
          => conversationId' = Last(IdEvents(processed')).id
     /\ (Delivery /\ ~IsType(Last(processed'), "conversation_id"))
          => conversationId' = conversationId]_vars

\* ---- properties of a send that ends -------------------------------------------------

\* C27: the hook's isStreaming is true while a send is under way, and every
\* send whose stream ends leads to isStreaming false and the turn it created
\* not streaming.
C27_SendEndsNotStreaming ==
  /\ [](pc = "streaming" => isStreaming)
  /\ (pc = "streaming") ~> (pc = "ended" /\ ~isStreaming /\ ~Streaming(Turn))

\* ---- properties of a body that ends inside a line -----------------------------------

\* C28: of a body whose last line has no newline, the events yielded are
\* at all times events of the lines before the last, and when the generator
\* has returned they are exactly those: the last line yields nothing.
C28_UnterminatedLineNotYielded ==
  /\ wireLines # <<>> =>
       /\ Len(yielded) <= Len(ExpectedEvents(Front(wireLines)))
       /\ yielded = SubSeq(ExpectedEvents(Front(wireLines)), 1, Len(yielded))
       /\ dstate = "returned" => yielded = ExpectedEvents(Front(wireLines))
  /\ wireLines = <<>> => yielded = <<>>

\* The stream has ended with a whole 'data: {}' line in the buffer, after a
\* line that was yielded.
C28_Witness ==
  /\ dstate = "returned"
  /\ wireLines = <<"other", "empty">>
  /\ buffer = DataPrefix \o TextEmpty
  /\ yielded = <<EvOther>>

\* ---- properties of a component using useResults -------------------------------------

\* C29: a component whose effect has run and which has no render pending
\* displays the latest published batch, also when a batch was published
\* between its first render and its effect.
C29_ComponentShowsLatest ==
  \A c \in 1..Len(views) :
    (c <= created /\ ~Pending(c)) => views[c].shown = _state

====
